---- MODULE Spec2Model ----
(***************************************************************************)
(* The travel-summary pipeline of app/build_summary.py as a state machine, *)
(* with selected_by_duration of app/video_processor.py and process_videos  *)
(* of app/main.py.                                                         *)
(*                                                                         *)
(* Time is counted in ticks of half a time unit (0.5 s), so that the two   *)
(* thresholds of the code, 1.0 (split_in_segments) and 1.5 (the default    *)
(* min_segment_duration), are the integers 2 and 3.  Arithmetic is exact:  *)
(* the rounding of Python floats is not modelled.  Durations, budgets and  *)
(* thresholds range over non-negative values (the splitter alone is also   *)
(* given a negative duration).                                             *)
(*                                                                         *)
(* Every loop of the code is a pc location and every loop iteration one    *)
(* action.  The functions call each other (the orchestrator calls the      *)
(* selector, which calls the splitter); `caller` records which function    *)
(* was entered from outside, and so where a return leads.                  *)
(***************************************************************************)
EXTENDS Integers, Sequences, FiniteSets, TLC

VARIABLES
    caller,                 \* the function entered from outside
    pc,                     \* the position in the code
    exc,                    \* the exception being propagated, or "none"
    \* inputs
    video_dir,              \* the entries of the input directory, as iterdir yields them
    segment_length,
    max_total_duration,
    min_segment_duration,
    bg_music,               \* bg_music_path: "none", "missing" (no such file), "exists"
    \* load_and_normalize_vids
    norm_clips,             \* the clips loaded so far: [duration, file]
    reader,                 \* reader[i]: the decoder handle of clip i, "open" or "closed"
    \* split_in_segments
    split_duration,         \* clip.duration of the clip being split
    t,
    split_segments,         \* the local list `segments` of split_in_segments
    \* extract_best_segment_per_clip
    idx,                    \* enumerate index (0-based)
    seg_times,
    wi,                     \* position of the inner for loop in seg_times (1-based)
    best_seg,               \* <<>> is None, <<s>> is the Segment s
    best_score,
    best_segments,
    score_log,              \* score_log[i]: the windows of clip i with their scores, as printed
    \* arrange_best_segments
    segments,
    si,                     \* position of the for loop in segments (1-based)
    selected_clips,
    total,
    \* concat_and_export
    music_clip,
    music_loop,
    mixed_audio,
    final_clip,
    output_file,            \* a file exists at export_path
    calls,                  \* the library calls concat_and_export has attempted
    \* a second run on the same directory
    names,                  \* names[i]: the name of the file video_dir[i]
    run,                    \* 1 in the first run, 2 in the second
    first_run,              \* what the first run selected and packed, <<>> before
    \* audio_energy_for_segment (times in milliseconds)
    audio_tracks,           \* audio_tracks[i]: clip i has an audio track (clip.audio)
    a_clip,                 \* the arguments clip, t_start, t_end
    a_start,
    a_end,
    audio_duration,         \* the local `duration`
    num_samples,
    energy,                 \* the value returned: <<>> before the return, <<v>> after
    warnings,               \* the windows for which the [WARN] line was printed
    \* selected_by_duration
    clips_in,               \* the argument `clips`: clips_in[i].duration
    max_total_length,
    min_clip_length,
    max_clip_length,
    ci,                     \* position of the for loop in clips (1-based)
    selected,
    total_length,           \* the local `total`
    \* process_videos (a file name is the sequence of its parts, the suffix last)
    videos,                 \* the uploaded videos: [filename, duration]
    music,                  \* the uploaded music: <<>> is None, <<filename>>
    session_dir,            \* the files of the session directory: [name, kind, upload, duration]
    vi                      \* enumerate index of the loop over videos (0-based)

vars == <<caller, pc, exc, video_dir, segment_length, max_total_duration,
          min_segment_duration, bg_music, norm_clips, reader, split_duration, t,
          split_segments, idx, seg_times, wi, best_seg, best_score, best_segments,
          score_log, segments, si, selected_clips, total, music_clip, music_loop,
          mixed_audio, final_clip, output_file, calls, names, run, first_run,
          audio_tracks, a_clip, a_start, a_end, audio_duration, num_samples, energy,
          warnings, clips_in, max_total_length, min_clip_length, max_clip_length, ci,
          selected, total_length, videos, music, session_dir, vi>>

rerunVars == <<names, run, first_run>>
\* what no function writes
audioVars == <<audio_tracks, a_clip, a_start, a_end, audio_duration, num_samples,
               energy, warnings>>
durationVars == <<clips_in, max_total_length, min_clip_length, max_clip_length, ci,
                  selected, total_length>>
uploadVars == <<videos, music, session_dir, vi>>
otherVars == <<rerunVars, audioVars, durationVars, uploadVars>>
inputVars == <<caller, video_dir, segment_length, max_total_duration,
               min_segment_duration, bg_music, otherVars>>
loadVars == <<norm_clips, reader>>
splitVars == <<split_duration, t, split_segments>>
selectVars == <<idx, seg_times, wi, best_seg, best_score, best_segments, score_log>>
packVars == <<segments, si, selected_clips, total>>
exportVars == <<music_clip, music_loop, mixed_audio, final_clip, output_file, calls>>

(***************************************************************************)
(* Program constants.                                                      *)
(***************************************************************************)
FORMATS == {".mp4", ".avi", ".mkv", ".mov"}

\* `t_end - t >= 1.0`, in ticks
MinWindow == 2

\* the default min_segment_duration = 1.5, in ticks
DefaultMinSegmentDuration == 3

\* float("-inf"): below every score (scores are >= 0)
NegInf == -1

\* one tick in milliseconds
TickMs == 500

\* the defaults segment_length = 6.0 and max_total_duration = 85.0, in ticks
DefaultSegmentLength == 12
DefaultMaxTotalDuration == 170

\* `eps = 1e-3`, in milliseconds
Eps == 1

\* `min(1000, int(duration * 1000))`
MaxSamples == 1000

(***************************************************************************)
(* Bounds.                                                                 *)
(***************************************************************************)
\* splitter alone: clip durations -1..MaxDuration, segment lengths 1..MaxSegmentLength
MaxDuration == 12
MaxSegmentLength == 5
\* selector alone
MaxClips == 2
MaxClipDuration == 6
MaxSelectLength == 2
MaxScore == 1
\* packer alone
MaxSegments == 3
MaxSegmentDuration == 3
MaxBudget == 6
MaxMinSegment == 2
\* exporter alone
MaxExtracts == 2
\* the whole pipeline
MaxFiles == 2
MaxFileDuration == 6

\* the audio scorer alone: t_start and t_end in 0..MaxAudioEnd, RMS values
\* 0..MaxEnergy
MaxAudioEnd == 2
MaxEnergy == 1

\* selected_by_duration alone: up to MaxListed clips of 0..MaxListedDuration,
\* budgets 0..MaxLengthBudget, minimums 0..MaxMinClip, cuts at 1..MaxCut
MaxListed == 3
MaxListedDuration == 3
MaxLengthBudget == 4
MaxMinClip == 2
MaxCut == 2

\* process_videos: up to MaxUploads videos
MaxUploads == 2

\* where a segment or an extract may start in its clip
SegmentStarts == {0, 1}

Min(a, b) == IF a < b THEN a ELSE b

RECURSIVE SeqsUpTo(_, _)
\* the sequences over S of length 0..n
SeqsUpTo(S, n) ==
    IF n = 0 THEN {<<>>}
    ELSE LET shorter == SeqsUpTo(S, n - 1)
         IN  shorter \cup {Append(q, x) : q \in {r \in shorter : Len(r) = n - 1}, x \in S}

RECURSIVE SumDurations(_)
\* the sum of the durations of a list of extracts
SumDurations(q) ==
    IF q = <<>> THEN 0
    ELSE (q[1].t_end - q[1].t_start) + SumDurations(Tail(q))

(***************************************************************************)
(* The locals of each function before it has run.                          *)
(***************************************************************************)
LoadIdle == norm_clips = <<>> /\ reader = <<>>

SplitIdle == split_duration = 0 /\ t = 0 /\ split_segments = <<>>

SelectIdle ==
    /\ idx = 0 /\ seg_times = <<>> /\ wi = 1
    /\ best_seg = <<>> /\ best_score = NegInf /\ best_segments = <<>>
    /\ score_log = <<>>

PackIdle == si = 1 /\ selected_clips = <<>> /\ total = 0

ExportIdle ==
    /\ music_clip = "none" /\ music_loop = "none" /\ mixed_audio = "none"
    /\ final_clip = "none" /\ output_file = FALSE /\ calls = {}

\* a single run: the files are named by their place in the listing
RerunIdle ==
    /\ names = [i \in 1..Len(video_dir) |-> i]
    /\ run = 1
    /\ first_run = <<>>

AudioIdle ==
    /\ audio_tracks = <<>>
    /\ a_clip = 0 /\ a_start = 0 /\ a_end = 0
    /\ audio_duration = 0 /\ num_samples = 0
    /\ energy = <<>> /\ warnings = {}

DurationIdle ==
    /\ clips_in = <<>>
    /\ max_total_length = 0 /\ min_clip_length = 0 /\ max_clip_length = 0
    /\ ci = 1 /\ selected = <<>> /\ total_length = 0

UploadIdle == videos = <<>> /\ music = <<>> /\ session_dir = {} /\ vi = 0

OtherIdle == RerunIdle /\ AudioIdle /\ DurationIdle /\ UploadIdle

(***************************************************************************)
(* split_in_segments                                                       *)
(***************************************************************************)
\* mutant of SplitStep: t advances only past a window that was kept
SplitStepKept ==
    /\ pc = "split"
    /\ t < split_duration
    /\ LET t_end == Min(t + segment_length, split_duration)
       IN  /\ split_segments' = IF t_end - t >= MinWindow
                                THEN Append(split_segments, <<t, t_end>>)
                                ELSE split_segments
           /\ t' = IF t_end - t >= MinWindow THEN t_end ELSE t
    /\ UNCHANGED <<pc, exc, split_duration>>
    /\ UNCHANGED <<inputVars, loadVars, selectVars, packVars, exportVars>>

\* one iteration of `while t < clip.duration`
SplitStep ==
    /\ pc = "split"
    /\ t < split_duration
    /\ LET t_end == Min(t + segment_length, split_duration)
       IN  /\ split_segments' = IF t_end - t >= MinWindow
                                THEN Append(split_segments, <<t, t_end>>)
                                ELSE split_segments
           /\ t' = t_end
    /\ UNCHANGED <<pc, exc, split_duration>>
    /\ UNCHANGED <<inputVars, loadVars, selectVars, packVars, exportVars>>

\* the loop condition fails: `return segments`
SplitReturn ==
    /\ pc = "split"
    /\ ~(t < split_duration)
    /\ IF caller = "split_in_segments"
       THEN /\ pc' = "done"
            /\ UNCHANGED selectVars
       ELSE \* back in extract_best_segment_per_clip, lines 207-211
            /\ pc' = "score"
            /\ seg_times' = split_segments
            /\ wi' = 1
            /\ best_seg' = <<>>
            /\ best_score' = NegInf
            /\ score_log' = Append(score_log, <<>>)
            /\ UNCHANGED <<idx, best_segments>>
    /\ UNCHANGED <<exc, splitVars>>
    /\ UNCHANGED <<inputVars, loadVars, packVars, exportVars>>

(***************************************************************************)
(* extract_best_segment_per_clip                                           *)
(***************************************************************************)
\* mutant of Better: a later window of equal score replaces the earlier one
BetterOrEqual(s, best) == s >= best

\* `if s > best_score`
Better(s, best) == s > best

\* `for idx, clip in enumerate(clips)`: the next clip is split
SelectNextClip ==
    /\ pc = "select"
    /\ idx < Len(norm_clips)
    /\ split_duration' = norm_clips[idx + 1].duration
    /\ t' = 0
    /\ split_segments' = <<>>
    /\ pc' = "split"
    /\ UNCHANGED <<exc, inputVars, loadVars, selectVars, packVars, exportVars>>

\* mutant of ScoreWindow: every new best window is appended to the result at once
ScoreWindowAppends ==
    /\ pc = "score"
    /\ wi <= Len(seg_times)
    /\ \E s \in 0..MaxScore :
          LET ts == seg_times[wi][1]
              te == seg_times[wi][2]
              seg == [clip |-> idx + 1, t_start |-> ts, t_end |-> te,
                      score |-> s, clip_index |-> idx]
          IN  /\ score_log' = [score_log EXCEPT ![idx + 1] =
                                  Append(@, [t_start |-> ts, t_end |-> te, score |-> s])]
              /\ IF Better(s, best_score)
                 THEN /\ best_score' = s
                      /\ best_seg' = <<>>
                      /\ best_segments' = Append(best_segments, seg)
                 ELSE UNCHANGED <<best_score, best_seg, best_segments>>
    /\ wi' = wi + 1
    /\ UNCHANGED <<pc, exc, idx, seg_times>>
    /\ UNCHANGED <<inputVars, loadVars, splitVars, packVars, exportVars>>

\* one iteration of `for (ts, te) in seg_times`; the score comes from the scorer
ScoreWindow ==
    /\ pc = "score"
    /\ wi <= Len(seg_times)
    /\ \E s \in 0..MaxScore :
          LET ts == seg_times[wi][1]
              te == seg_times[wi][2]
          IN  /\ score_log' = [score_log EXCEPT ![idx + 1] =
                                  Append(@, [t_start |-> ts, t_end |-> te, score |-> s])]
              /\ IF Better(s, best_score)
                 THEN /\ best_score' = s
                      /\ best_seg' = <<[clip |-> idx + 1, t_start |-> ts, t_end |-> te,
                                        score |-> s, clip_index |-> idx]>>
                 ELSE UNCHANGED <<best_score, best_seg>>
    /\ wi' = wi + 1
    /\ UNCHANGED <<pc, exc, idx, seg_times, best_segments>>
    /\ UNCHANGED <<inputVars, loadVars, splitVars, packVars, exportVars>>

\* the inner loop is over: `if best_seg is not None: best_segments.append(best_seg)`
SelectEndClip ==
    /\ pc = "score"
    /\ wi > Len(seg_times)
    /\ best_segments' = IF best_seg # <<>>
                        THEN Append(best_segments, best_seg[1])
                        ELSE best_segments
    /\ idx' = idx + 1
    /\ pc' = "select"
    /\ UNCHANGED <<exc, seg_times, wi, best_seg, best_score, score_log>>
    /\ UNCHANGED <<inputVars, loadVars, splitVars, packVars, exportVars>>

\* the outer loop is over: `return best_segments`
SelectReturn ==
    /\ pc = "select"
    /\ ~(idx < Len(norm_clips))
    /\ IF caller = "extract_best_segment_per_clip"
       THEN /\ pc' = "done"
            /\ UNCHANGED packVars
       ELSE \* back in build_travel_summary_smart: arrange_best_segments(segments, ...)
            /\ pc' = "pack"
            /\ segments' = best_segments
            /\ si' = 1
            /\ selected_clips' = <<>>
            /\ total' = 0
    /\ UNCHANGED <<exc, inputVars, loadVars, splitVars, selectVars, exportVars>>

(***************************************************************************)
(* arrange_best_segments                                                   *)
(***************************************************************************)
\* mutant of Fits: the duration of the segment is left out of the test
FitsIgnoringDuration(tot, dur, max) == ~(tot > max)

\* the else of `if total + dur > max_total_duration`
Fits(tot, dur, max) == ~(tot + dur > max)

\* seg.clip.subclip(a, b): a view of the segment's clip, sharing its reader
Subclip(seg, a, b) == [src |-> seg.clip, t_start |-> a, t_end |-> b]

\* mutant of Truncated: the extract is cut from the start of the clip, as
\* selected_by_duration does
TruncatedFromZero(seg, remaining) == Subclip(seg, 0, remaining)

\* `sub = seg.clip.subclip(seg.t_start, seg.t_start + remaining)`
Truncated(seg, remaining) == Subclip(seg, seg.t_start, seg.t_start + remaining)

\* `if dur < min_segment_duration: continue`
PackSkipShort ==
    /\ pc = "pack"
    /\ si <= Len(segments)
    /\ LET seg == segments[si]
           dur == seg.t_end - seg.t_start
       IN  dur < min_segment_duration
    /\ si' = si + 1
    /\ UNCHANGED <<pc, exc, segments, selected_clips, total>>
    /\ UNCHANGED <<inputVars, loadVars, splitVars, selectVars, exportVars>>

\* mutant of PackOverflow: the `break` is missing and the scan goes on
PackOverflowNoBreak ==
    /\ pc = "pack"
    /\ si <= Len(segments)
    /\ LET seg == segments[si]
           dur == seg.t_end - seg.t_start
           remaining == max_total_duration - total
       IN  /\ ~(dur < min_segment_duration)
           /\ ~Fits(total, dur, max_total_duration)
           /\ IF remaining >= min_segment_duration
              THEN /\ selected_clips' = Append(selected_clips, Truncated(seg, remaining))
                   /\ total' = total + remaining
              ELSE UNCHANGED <<selected_clips, total>>
    /\ si' = si + 1
    /\ UNCHANGED <<pc, exc, segments>>
    /\ UNCHANGED <<inputVars, loadVars, splitVars, selectVars, exportVars>>

\* `if total + dur > max_total_duration:` ... `break`
PackOverflow ==
    /\ pc = "pack"
    /\ si <= Len(segments)
    /\ LET seg == segments[si]
           dur == seg.t_end - seg.t_start
           remaining == max_total_duration - total
       IN  /\ ~(dur < min_segment_duration)
           /\ ~Fits(total, dur, max_total_duration)
           /\ IF remaining >= min_segment_duration
              THEN /\ selected_clips' = Append(selected_clips, Truncated(seg, remaining))
                   /\ total' = total + remaining
              ELSE UNCHANGED <<selected_clips, total>>
    /\ pc' = "pack_break"
    /\ UNCHANGED <<exc, segments, si>>
    /\ UNCHANGED <<inputVars, loadVars, splitVars, selectVars, exportVars>>

\* the else branch: the whole segment is appended
PackWhole ==
    /\ pc = "pack"
    /\ si <= Len(segments)
    /\ LET seg == segments[si]
           dur == seg.t_end - seg.t_start
       IN  /\ ~(dur < min_segment_duration)
           /\ Fits(total, dur, max_total_duration)
           /\ selected_clips' = Append(selected_clips, Subclip(seg, seg.t_start, seg.t_end))
           /\ total' = total + dur
    /\ si' = si + 1
    /\ UNCHANGED <<pc, exc, segments>>
    /\ UNCHANGED <<inputVars, loadVars, splitVars, selectVars, exportVars>>

\* the loop is over, by exhaustion or by break: `return selected_clips`
PackReturn ==
    /\ \/ pc = "pack" /\ si > Len(segments)
       \/ pc = "pack_break"
    /\ pc' = IF caller = "arrange_best_segments" THEN "done" ELSE "export"
    /\ UNCHANGED <<exc, inputVars, loadVars, splitVars, selectVars, packVars, exportVars>>

(***************************************************************************)
(* concat_and_export; its parameter `clips` is selected_clips              *)
(***************************************************************************)
\* mutant of NoClipsSelected: the test for an empty list is missing
NeverEmpty(clips) == FALSE

\* `if len(clips) == 0`
NoClipsSelected(clips) == Len(clips) = 0

\* the state of an audio handle after `if au is not None: au.close()`
Closed(au) == IF au = "none" THEN "none" ELSE "closed"

\* `if len(clips) == 0: raise ValueError("No clips selected.")`
ExportCheck ==
    /\ pc = "export"
    /\ IF NoClipsSelected(selected_clips)
       THEN /\ exc' = "ValueError: No clips selected."
            /\ pc' = "finally"
       ELSE /\ pc' = "concat"
            /\ UNCHANGED exc
    /\ UNCHANGED <<inputVars, loadVars, splitVars, selectVars, packVars, exportVars>>

\* `final_clip = concatenate_videoclips(clips, method="compose")`, then the test
\* `if bg_music_path is not None and bg_music_path.exists()`
Concatenate ==
    /\ pc = "concat"
    /\ calls' = calls \cup {"concatenate_videoclips"}
    /\ \E ok \in BOOLEAN :
          IF ok
          THEN /\ final_clip' = "open"
               /\ pc' = IF bg_music = "exists" THEN "music" ELSE "write"
               /\ UNCHANGED exc
          ELSE /\ exc' = "ExportFailure"
               /\ pc' = "finally"
               /\ UNCHANGED final_clip
    /\ UNCHANGED <<music_clip, music_loop, mixed_audio, output_file>>
    /\ UNCHANGED <<inputVars, loadVars, splitVars, selectVars, packVars>>

\* `music_clip = AudioFileClip(str(bg_music_path))`
LoadMusic ==
    /\ pc = "music"
    /\ calls' = calls \cup {"AudioFileClip"}
    /\ \E ok \in BOOLEAN :
          IF ok
          THEN /\ music_clip' = "open"
               /\ pc' = "loop"
               /\ UNCHANGED exc
          ELSE /\ exc' = "ExportFailure"
               /\ pc' = "finally"
               /\ UNCHANGED music_clip
    /\ UNCHANGED <<music_loop, mixed_audio, final_clip, output_file>>
    /\ UNCHANGED <<inputVars, loadVars, splitVars, selectVars, packVars>>

\* `music_loop = afx.audio_loop(music_clip, duration=duration)` and its volumex
LoopMusic ==
    /\ pc = "loop"
    /\ calls' = calls \cup {"audio_loop"}
    /\ \E ok \in BOOLEAN :
          IF ok
          THEN /\ music_loop' = "open"
               /\ pc' = "mix"
               /\ UNCHANGED exc
          ELSE /\ exc' = "ExportFailure"
               /\ pc' = "finally"
               /\ UNCHANGED music_loop
    /\ UNCHANGED <<music_clip, mixed_audio, final_clip, output_file>>
    /\ UNCHANGED <<inputVars, loadVars, splitVars, selectVars, packVars>>

\* `mixed_audio = CompositeAudioClip([original_audio, music_loop])`, or music_loop
\* itself when the video has no audio; then `final_clip.set_audio(mixed_audio)`
MixAudio ==
    /\ pc = "mix"
    /\ \E original_audio \in BOOLEAN, ok \in BOOLEAN :
          IF ~original_audio
          THEN /\ mixed_audio' = music_loop
               /\ pc' = "write"
               /\ UNCHANGED <<exc, calls>>
          ELSE /\ calls' = calls \cup {"CompositeAudioClip"}
               /\ IF ok
                  THEN /\ mixed_audio' = "open"
                       /\ pc' = "write"
                       /\ UNCHANGED exc
                  ELSE /\ exc' = "ExportFailure"
                       /\ pc' = "finally"
                       /\ UNCHANGED mixed_audio
    /\ UNCHANGED <<music_clip, music_loop, final_clip, output_file>>
    /\ UNCHANGED <<inputVars, loadVars, splitVars, selectVars, packVars>>

\* `final_clip.write_videofile(...)` and, when it returns, `final_clip.close()`;
\* a write that fails may leave a partial file behind
WriteVideofile ==
    /\ pc = "write"
    /\ calls' = calls \cup {"write_videofile"}
    /\ \E ok \in BOOLEAN, partial \in BOOLEAN :
          IF ok
          THEN /\ output_file' = TRUE
               /\ final_clip' = "closed"
               /\ UNCHANGED exc
          ELSE /\ output_file' = (output_file \/ partial)
               /\ exc' = "ExportFailure"
               /\ UNCHANGED final_clip
    /\ pc' = "finally"
    /\ UNCHANGED <<music_clip, music_loop, mixed_audio>>
    /\ UNCHANGED <<inputVars, loadVars, splitVars, selectVars, packVars>>

\* the finally block: `for c in clips: c.close()` closes the reader each extract
\* shares with its source clip, then the audio handles that are not None are
\* closed; the call returns, or the exception goes on to the caller
Finally ==
    /\ pc = "finally"
    /\ reader' = [i \in 1..Len(reader) |->
                     IF \E k \in 1..Len(selected_clips) : selected_clips[k].src = i
                     THEN "closed" ELSE reader[i]]
    /\ mixed_audio' = Closed(mixed_audio)
    /\ music_loop' = Closed(music_loop)
    /\ music_clip' = Closed(music_clip)
    /\ pc' = "done"
    /\ UNCHANGED <<exc, norm_clips, final_clip, output_file, calls>>
    /\ UNCHANGED <<inputVars, splitVars, selectVars, packVars>>

(***************************************************************************)
(* available_vids, load_and_normalize_vids, build_travel_summary_smart     *)
(***************************************************************************)
\* mutant of available_vids: the suffix is not looked at
available_files(folder) ==
    SelectSeq([i \in 1..Len(folder) |-> i], LAMBDA i : folder[i].is_file)

\* the positions in the listing of the entries that pass
\* `v.is_file() and v.suffix in FORMATS`
available_vids(folder) ==
    SelectSeq([i \in 1..Len(folder) |-> i],
              LAMBDA i : folder[i].is_file /\ folder[i].suffix \in FORMATS)

\* `video_paths = available_vids(video_dir)`; `if not video_paths: raise ValueError`
BuildStart ==
    /\ pc = "start"
    /\ IF available_vids(video_dir) = <<>>
       THEN /\ exc' = "ValueError: No videos found"
            /\ pc' = "done"
       ELSE /\ pc' = "load"
            /\ UNCHANGED exc
    /\ UNCHANGED <<inputVars, loadVars, splitVars, selectVars, packVars, exportVars>>

\* one iteration of `for vid in available_vids(folder)`: VideoFileClip opens the
\* file and resize derives the normalized clip, which shares its reader; either
\* call may raise, the second with the reader already open
LoadClip ==
    /\ pc = "load"
    /\ Len(norm_clips) < Len(available_vids(video_dir))
    /\ LET vid == available_vids(video_dir)[Len(norm_clips) + 1]
       IN  \E outcome \in {"ok", "open_raises", "resize_raises"} :
             /\ reader' = IF outcome = "open_raises" THEN reader
                                                     ELSE Append(reader, "open")
             /\ IF outcome = "ok"
                THEN /\ norm_clips' = Append(norm_clips,
                                    [duration |-> video_dir[vid].duration, file |-> vid])
                     /\ UNCHANGED <<pc, exc>>
                ELSE /\ exc' = "LoadFailure"
                     /\ pc' = "done"
                     /\ UNCHANGED norm_clips
    /\ UNCHANGED <<inputVars, splitVars, selectVars, packVars, exportVars>>

\* `return norm_clips`; `extract_best_segment_per_clip(clips, segment_length)` starts
LoadReturn ==
    /\ pc = "load"
    /\ ~(Len(norm_clips) < Len(available_vids(video_dir)))
    /\ pc' = "select"
    /\ UNCHANGED <<exc, inputVars, loadVars, splitVars, selectVars, packVars, exportVars>>

\* motion_score_for_segment raises (clip.get_frame); nothing catches it
ScoreRaise ==
    /\ pc = "score"
    /\ wi <= Len(seg_times)
    /\ exc' = "ScoreFailure"
    /\ pc' = "done"
    /\ UNCHANGED <<inputVars, loadVars, splitVars, selectVars, packVars, exportVars>>

\* seg.clip.subclip raises; nothing catches it
PackRaise ==
    /\ pc = "pack"
    /\ si <= Len(segments)
    /\ ~(segments[si].t_end - segments[si].t_start < min_segment_duration)
    /\ exc' = "PackFailure"
    /\ pc' = "done"
    /\ UNCHANGED <<inputVars, loadVars, splitVars, selectVars, packVars, exportVars>>

InitSplit ==
    /\ caller = "split_in_segments"
    /\ pc = "split"
    /\ exc = "none"
    /\ video_dir = <<>>
    /\ segment_length \in 1..MaxSegmentLength
    /\ max_total_duration = 0
    /\ min_segment_duration = DefaultMinSegmentDuration
    /\ bg_music = "none"
    /\ split_duration \in (-1)..MaxDuration
    /\ t = 0
    /\ split_segments = <<>>
    /\ LoadIdle /\ SelectIdle /\ segments = <<>> /\ PackIdle /\ ExportIdle
    /\ OtherIdle

NextSplit == SplitStep \/ SplitReturn

SpecSplit == InitSplit /\ [][NextSplit]_vars


\* the clips of durations ds, all open
ClipsOf(ds) == [i \in 1..Len(ds) |-> [duration |-> ds[i], file |-> i]]

InitSelect ==
    /\ caller = "extract_best_segment_per_clip"
    /\ pc = "select"
    /\ exc = "none"
    /\ video_dir = <<>>
    /\ segment_length \in 1..MaxSelectLength
    /\ max_total_duration = 0
    /\ min_segment_duration = DefaultMinSegmentDuration
    /\ bg_music = "none"
    /\ \E ds \in SeqsUpTo(0..MaxClipDuration, MaxClips) :
          /\ norm_clips = ClipsOf(ds)
          /\ reader = [i \in 1..Len(ds) |-> "open"]
    /\ SplitIdle /\ SelectIdle /\ segments = <<>> /\ PackIdle /\ ExportIdle
    /\ OtherIdle

NextSelect ==
    \/ SelectNextClip
    \/ SplitStep
    \/ SplitReturn
    \/ ScoreWindow
    \/ SelectEndClip
    \/ SelectReturn

SpecSelect == InitSelect /\ [][NextSelect]_vars


\* the segments of the given (t_start, duration) shapes, one per clip
SegmentsOf(q) ==
    [i \in 1..Len(q) |-> [clip |-> i, t_start |-> q[i][1], t_end |-> q[i][1] + q[i][2],
                          score |-> 0, clip_index |-> i - 1]]

InitPack ==
    /\ caller = "arrange_best_segments"
    /\ pc = "pack"
    /\ exc = "none"
    /\ video_dir = <<>>
    /\ segment_length = 1
    /\ max_total_duration \in 0..MaxBudget
    /\ min_segment_duration \in 0..MaxMinSegment
    /\ bg_music = "none"
    /\ \E q \in SeqsUpTo(SegmentStarts \X (1..MaxSegmentDuration), MaxSegments) :
          /\ segments = SegmentsOf(q)
          /\ norm_clips = ClipsOf([i \in 1..Len(q) |-> q[i][1] + q[i][2]])
          /\ reader = [i \in 1..Len(q) |-> "open"]
    /\ SplitIdle /\ SelectIdle /\ PackIdle /\ ExportIdle
    /\ OtherIdle

NextPack ==
    \/ PackSkipShort
    \/ PackOverflow
    \/ PackWhole
    \/ PackReturn

SpecPack == InitPack /\ [][NextPack]_vars


\* the extracts of the given (t_start, duration) shapes, one per clip
ExtractsOf(q) ==
    [i \in 1..Len(q) |-> [src |-> i, t_start |-> q[i][1], t_end |-> q[i][1] + q[i][2]]]

InitExport ==
    /\ caller = "concat_and_export"
    /\ pc = "export"
    /\ exc = "none"
    /\ video_dir = <<>>
    /\ segment_length = 1
    /\ max_total_duration = 0
    /\ min_segment_duration = DefaultMinSegmentDuration
    /\ bg_music \in {"none", "missing", "exists"}
    /\ \E q \in SeqsUpTo(SegmentStarts \X (1..MaxSegmentDuration), MaxExtracts) :
          /\ selected_clips = ExtractsOf(q)
          /\ norm_clips = ClipsOf([i \in 1..Len(q) |-> q[i][1] + q[i][2]])
          /\ reader = [i \in 1..Len(q) |-> "open"]
    /\ segments = <<>> /\ si = 1 /\ total = 0
    /\ SplitIdle /\ SelectIdle /\ ExportIdle
    /\ OtherIdle

NextExport ==
    \/ ExportCheck
    \/ Concatenate
    \/ LoadMusic
    \/ LoopMusic
    \/ MixAudio
    \/ WriteVideofile
    \/ Finally

SpecExport == InitExport /\ [][NextExport]_vars

\* the durations of the input videos: no window at all, one window that is below
\* the default min_segment_duration, and a long clip
FileDurations == {0, MinWindow, MaxFileDuration}

\* what a directory may hold: videos of the allow-list, a file of another suffix,
\* a suffix that differs in case only, a sub-directory named like a video
DirEntries ==
    {[suffix |-> ".mp4", is_file |-> TRUE, duration |-> d] : d \in FileDurations}
    \cup {[suffix |-> ".mov", is_file |-> TRUE, duration |-> MaxFileDuration],
          [suffix |-> ".mp3", is_file |-> TRUE, duration |-> 0],
          [suffix |-> ".MP4", is_file |-> TRUE, duration |-> 0],
          [suffix |-> ".mp4", is_file |-> FALSE, duration |-> 0]}

\* windows of the shortest length the packer keeps, or one window per long clip
PipelineLengths == {DefaultMinSegmentDuration, MaxFileDuration}

\* no budget, the budget of one long clip, one tick less than two long clips
PipelineBudgets == {0, MaxFileDuration, 2 * MaxFileDuration - 1}

Init ==
    /\ caller = "build_travel_summary_smart"
    /\ pc = "start"
    /\ exc = "none"
    /\ video_dir \in SeqsUpTo(DirEntries, MaxFiles)
    /\ segment_length \in PipelineLengths
    /\ max_total_duration \in PipelineBudgets
    /\ min_segment_duration = DefaultMinSegmentDuration
    /\ bg_music \in {"none", "missing", "exists"}
    /\ LoadIdle /\ SplitIdle /\ SelectIdle /\ segments = <<>> /\ PackIdle /\ ExportIdle
    /\ OtherIdle

Next ==
    \/ BuildStart
    \/ LoadClip
    \/ LoadReturn
    \/ SelectNextClip
    \/ SplitStep
    \/ SplitReturn
    \/ ScoreWindow
    \/ ScoreRaise
    \/ SelectEndClip
    \/ SelectReturn
    \/ PackSkipShort
    \/ PackOverflow
    \/ PackWhole
    \/ PackRaise
    \/ PackReturn
    \/ ExportCheck
    \/ Concatenate
    \/ LoadMusic
    \/ LoopMusic
    \/ MixAudio
    \/ WriteVideofile
    \/ Finally

Spec == Init /\ [][Next]_vars

(***************************************************************************)
(* The packer's contract, stated from its input alone.                     *)
(***************************************************************************)
SegDur(seg) == seg.t_end - seg.t_start

\* the position in `segments` of the segment an extract was cut from
SegPos(e) == CHOOSE j \in 1..Len(segments) : segments[j].clip = e.src

RECURSIVE KeptBefore(_)
\* the durations of the segments before position j that are not below the minimum
KeptBefore(j) ==
    IF j = 1 THEN 0
    ELSE KeptBefore(j - 1)
         + (IF SegDur(segments[j - 1]) >= min_segment_duration
            THEN SegDur(segments[j - 1]) ELSE 0)

Overflowing(j) ==
    /\ SegDur(segments[j]) >= min_segment_duration
    /\ KeptBefore(j) + SegDur(segments[j]) > max_total_duration

\* the first segment whose full duration overflows the budget; Len + 1 if none does
FirstOverflow ==
    IF \E j \in 1..Len(segments) : Overflowing(j)
    THEN CHOOSE j \in 1..Len(segments) :
            Overflowing(j) /\ \A k \in 1..(j - 1) : ~Overflowing(k)
    ELSE Len(segments) + 1

\* C1: in every state of arrange_best_segments (so after every loop step and at
\* the return) the running total is the sum of the durations of the extracts
\* selected so far, and that sum is at most max_total_duration.
PackerBudget ==
    /\ total = SumDurations(selected_clips)
    /\ SumDurations(selected_clips) <= max_total_duration

\* C1 witness: the packer has returned two extracts or more, the last one
\* truncated, and they fill the budget exactly.
PackerBudgetWitness ==
    /\ pc = "done"
    /\ Len(selected_clips) >= 2
    /\ total = max_total_duration
    /\ LET e == selected_clips[Len(selected_clips)]
       IN  e.t_end < segments[SegPos(e)].t_end

\* C2: no extract comes from a segment after the first overflowing one, whether
\* that one was appended truncated or skipped; and when the packer returns, every
\* segment before the first overflowing one that is not below the minimum has
\* been included: a segment skipped for being short does not stop the scan.
PackerStopsAtFirstOverflow ==
    /\ \A i \in 1..Len(selected_clips) : SegPos(selected_clips[i]) <= FirstOverflow
    /\ pc = "done" =>
          \A j \in 1..Len(segments) :
             (j < FirstOverflow /\ SegDur(segments[j]) >= min_segment_duration)
                => \E i \in 1..Len(selected_clips) : SegPos(selected_clips[i]) = j

\* C2 witness: the packer has returned; a short segment was skipped before the
\* first overflowing one, which is not the last segment, and no extract comes
\* from a segment after it although one of them is not below the minimum.
PackerStopsWitness ==
    /\ pc = "done"
    /\ FirstOverflow < Len(segments)
    /\ \E j \in 1..Len(segments) :
          j < FirstOverflow /\ SegDur(segments[j]) < min_segment_duration
    /\ \E j \in 1..Len(segments) :
          j > FirstOverflow /\ SegDur(segments[j]) >= min_segment_duration

\* C3: every extract starts at its segment's t_start; it is the whole segment, of
\* a segment before the first overflowing one, or it is cut from the first
\* overflowing segment to exactly the budget the extracts before it left, which
\* is then at least min_segment_duration, and it is the last extract, the scan
\* being over; the extracts are in the order of their segments.
PackerExtracts ==
    /\ \A i \in 1..Len(selected_clips) :
          LET e == selected_clips[i]
              j == SegPos(e)
              remaining == max_total_duration
                              - SumDurations(SubSeq(selected_clips, 1, i - 1))
          IN  /\ e.t_start = segments[j].t_start
              /\ \/ e.t_end = segments[j].t_end /\ j < FirstOverflow
                 \/ /\ e.t_end - e.t_start = remaining
                    /\ remaining >= min_segment_duration
                    /\ j = FirstOverflow
                    /\ i = Len(selected_clips)
                    /\ pc # "pack"
    /\ \A i \in 1..Len(selected_clips), k \in 1..Len(selected_clips) :
          i < k => SegPos(selected_clips[i]) < SegPos(selected_clips[k])

\* C3 witness: a whole extract followed by a truncated one that starts inside
\* its clip.
PackerExtractsWitness ==
    /\ pc = "done"
    /\ Len(selected_clips) = 2
    /\ selected_clips[1].t_end = segments[SegPos(selected_clips[1])].t_end
    /\ selected_clips[2].t_start > 0
    /\ selected_clips[2].t_end < segments[SegPos(selected_clips[2])].t_end

(***************************************************************************)
(* The selector's and the splitter's contracts.                            *)
(***************************************************************************)
\* the clips (1-based) the selector has finished with
Processed == 1..(IF pc = "score" \/ pc = "split" THEN idx ELSE Min(idx, Len(norm_clips)))

\* C4: the result holds at most one Segment per clip, in clip order (clip_index
\* strictly increasing, so never more Segments than clips), and none for a clip
\* that yielded no window (a clip has a window exactly when its duration and
\* segment_length are both at least 1.0), in particular none for a clip of
\* duration 0.
SelectorOnePerClip ==
    /\ Len(best_segments) <= Len(norm_clips)
    /\ \A i \in 1..Len(best_segments), k \in 1..Len(best_segments) :
          i < k => best_segments[i].clip_index < best_segments[k].clip_index
    /\ \A i \in 1..Len(best_segments) :
          LET seg == best_segments[i]
          IN  /\ seg.clip_index \in 0..(Len(norm_clips) - 1)
              /\ seg.clip = seg.clip_index + 1
              /\ norm_clips[seg.clip].duration > 0
              /\ Min(norm_clips[seg.clip].duration, segment_length) >= MinWindow
              /\ score_log[seg.clip] # <<>>

\* C4 witness: the selector has returned one Segment for two clips, the first of
\* which has duration 0.
SelectorOnePerClipWitness ==
    /\ caller = "extract_best_segment_per_clip"
    /\ pc = "done"
    /\ Len(norm_clips) = 2
    /\ norm_clips[1].duration = 0
    /\ Len(best_segments) = 1
    /\ best_segments[1].clip_index = 1

\* C5: for every clip the selector has finished with and that yielded a window,
\* exactly one Segment of the result belongs to it; it is one of the clip's scored
\* windows, no window of the clip scored higher, and no window of the same score
\* starts earlier.
SelectorKeepsBest ==
    \A c \in Processed :
       score_log[c] # <<>> =>
          /\ Cardinality({i \in 1..Len(best_segments) : best_segments[i].clip = c}) = 1
          /\ \A i \in 1..Len(best_segments) :
                best_segments[i].clip = c =>
                   LET seg == best_segments[i]
                       log == score_log[c]
                   IN  /\ \E w \in 1..Len(log) :
                             /\ log[w].t_start = seg.t_start
                             /\ log[w].t_end = seg.t_end
                             /\ log[w].score = seg.score
                       /\ \A w \in 1..Len(log) : log[w].score <= seg.score
                       /\ \A w \in 1..Len(log) :
                             log[w].score = seg.score => log[w].t_start >= seg.t_start

\* C5 witness: a clip of three windows, the first scored below the other two,
\* which tie; the second window was retained.
SelectorKeepsBestWitness ==
    /\ caller = "extract_best_segment_per_clip"
    /\ pc = "done"
    /\ \E c \in 1..Len(norm_clips) :
          /\ Len(score_log[c]) = 3
          /\ score_log[c][1].score < score_log[c][2].score
          /\ score_log[c][2].score = score_log[c][3].score
          /\ \E i \in 1..Len(best_segments) :
                /\ best_segments[i].clip = c
                /\ best_segments[i].t_start = score_log[c][2].t_start

\* C6: when split_in_segments returns, the windows start at 0, each starts where
\* the previous one ends, every window but the last spans exactly segment_length,
\* all lie in [0, D], and only the end of the clip is left out: of the m =
\* ceil(D / L) windows that cover [0, D) the first m - 1 are present, and the
\* last one is present if and only if its length is at least 1.0; D <= 0 gives
\* no window.
SplitterPartition ==
    (caller = "split_in_segments" /\ pc = "done") =>
       LET D == split_duration
           L == segment_length
           n == Len(split_segments)
       IN  IF D <= 0 THEN n = 0
           ELSE LET m == (D + L - 1) \div L
                IN  /\ \A i \in 1..n :
                          /\ split_segments[i][1] = (i - 1) * L
                          /\ split_segments[i][2] = Min(i * L, D)
                    /\ n = (m - 1) + (IF D - (m - 1) * L >= MinWindow THEN 1 ELSE 0)

\* The same contract for segment lengths of at least 1.0, the lengths for which
\* the test `t_end - t >= 1.0` can only drop the last window.
SplitterPartitionLongWindows ==
    segment_length >= MinWindow => SplitterPartition

(***************************************************************************)
(* Resources and errors of the exporter and of the orchestrator.           *)
(***************************************************************************)
Released(handle) == handle \in {"none", "closed"}

\* no entry of the directory is a file with a suffix of the allow-list
NoVideo(folder) ==
    \A i \in 1..Len(folder) : ~(folder[i].is_file /\ folder[i].suffix \in FORMATS)

\* C7: when build_travel_summary_smart has returned or raised, every clip it
\* opened has been closed; and no clip is closed before the export is over.
PipelineReleasesClips ==
    caller = "build_travel_summary_smart" =>
       /\ pc = "done" => \A i \in 1..Len(reader) : reader[i] = "closed"
       /\ pc # "done" => \A i \in 1..Len(reader) : reader[i] = "open"

\* C8: when concat_and_export has returned or raised, every extract it was given
\* is closed, and so are the music track, the looped music, the mixed audio and
\* the final composite clip, if they were created.
ExportReleasesAll ==
    (caller = "concat_and_export" /\ pc = "done") =>
       /\ \A k \in 1..Len(selected_clips) : reader[selected_clips[k].src] = "closed"
       /\ Released(music_clip)
       /\ Released(music_loop)
       /\ Released(mixed_audio)
       /\ Released(final_clip)

\* C9: concat_and_export called with no extract attempts no library call
\* (concatenation, music loading, write), creates no composite and no file at
\* export_path, and ends by raising the ValueError "No clips selected."
EmptySelectionRaises ==
    (caller = "concat_and_export" /\ Len(selected_clips) = 0) =>
       /\ calls = {}
       /\ ~output_file
       /\ final_clip = "none" /\ music_clip = "none"
       /\ pc \in {"export", "finally", "done"}
       /\ pc \in {"finally", "done"} => exc = "ValueError: No clips selected."

\* C9 witness: the call with no extract and an existing music file has raised.
EmptySelectionWitness ==
    /\ caller = "concat_and_export"
    /\ selected_clips = <<>>
    /\ bg_music = "exists"
    /\ pc = "done"
    /\ exc = "ValueError: No clips selected."

\* C10: when no entry of the directory is a file of the allow-list, the
\* orchestrator opens no clip and no other resource, runs no later stage, creates
\* no output file, and ends by raising the ValueError "No videos found".
NoVideosRaises ==
    (caller = "build_travel_summary_smart" /\ NoVideo(video_dir)) =>
       /\ reader = <<>> /\ norm_clips = <<>>
       /\ music_clip = "none" /\ music_loop = "none" /\ mixed_audio = "none"
       /\ final_clip = "none"
       /\ calls = {}
       /\ ~output_file
       /\ pc \in {"start", "done"}
       /\ pc = "done" => exc = "ValueError: No videos found"

\* C10 witness: the call on a directory of two entries, neither a video of the
\* allow-list, has raised.
NoVideosWitness ==
    /\ caller = "build_travel_summary_smart"
    /\ Len(video_dir) = 2
    /\ NoVideo(video_dir)
    /\ pc = "done"
    /\ exc = "ValueError: No videos found"

(***************************************************************************)
(* The scenario of two clips of 8 s: A silent, B loud from 4 s to 7 s,     *)
(* segment_length = 4 s, max_total_duration = 6 s (16, 8 and 12 ticks).    *)
(***************************************************************************)
\* what the scenario says of the scorer: of B's two windows the one that holds
\* the loud region, [4 s, 8 s], scores higher; A's scores are left open
ScenarioScorer ==
    (Len(score_log) >= 2 /\ Len(score_log[2]) = 2) =>
       score_log[2][2].score > score_log[2][1].score

InitScenario ==
    /\ caller = "build_travel_summary_smart"
    /\ pc = "start"
    /\ exc = "none"
    /\ video_dir = <<[suffix |-> ".mp4", is_file |-> TRUE, duration |-> 16],
                     [suffix |-> ".mp4", is_file |-> TRUE, duration |-> 16]>>
    /\ segment_length = 8
    /\ max_total_duration = 12
    /\ min_segment_duration = DefaultMinSegmentDuration
    /\ bg_music \in {"none", "missing", "exists"}
    /\ LoadIdle /\ SplitIdle /\ SelectIdle /\ segments = <<>> /\ PackIdle /\ ExportIdle
    /\ OtherIdle

\* the steps of the pipeline that the scenario can take (no segment is short),
\* the scores being those of the scenario
NextScenario ==
    \/ BuildStart
    \/ LoadClip
    \/ LoadReturn
    \/ SelectNextClip
    \/ SplitStep
    \/ SplitReturn
    \/ (ScoreWindow /\ ScenarioScorer')
    \/ ScoreRaise
    \/ SelectEndClip
    \/ SelectReturn
    \/ PackOverflow
    \/ PackWhole
    \/ PackRaise
    \/ PackReturn
    \/ ExportCheck
    \/ Concatenate
    \/ LoadMusic
    \/ LoopMusic
    \/ MixAudio
    \/ WriteVideofile
    \/ Finally

SpecScenario == InitScenario /\ [][NextScenario]_vars

\* the packer has returned in the scenario
ScenarioPacked ==
    /\ pc \in {"export", "concat", "music", "loop", "mix", "write", "finally", "done"}
    /\ exc \notin {"LoadFailure", "ScoreFailure", "PackFailure"}

\* C11 as stated: the Selector picks B's window [4 s, 8 s], and the packed
\* timeline holds an extract of B that starts at that window's t_start and lasts
\* 6 s.
ScenarioAsStated ==
    ScenarioPacked =>
       /\ \E i \in 1..Len(best_segments) :
             /\ best_segments[i].clip = 2
             /\ best_segments[i].t_start = 8 /\ best_segments[i].t_end = 16
       /\ \E k \in 1..Len(selected_clips) :
             /\ selected_clips[k].src = 2
             /\ selected_clips[k].t_start = 8
             /\ selected_clips[k].t_end - selected_clips[k].t_start = 12

\* C11 amended: the Selector picks one window of A (of 4 s) and B's window
\* [4 s, 8 s]; the Packer keeps A's window whole and truncates B's window to the
\* 2 s the budget has left, starting at its t_start: the total is 6 s.
ScenarioAsBuilt ==
    ScenarioPacked =>
       /\ Len(best_segments) = 2
       /\ best_segments[1].clip = 1
       /\ best_segments[1].t_end - best_segments[1].t_start = 8
       /\ best_segments[2].clip = 2
       /\ best_segments[2].t_start = 8 /\ best_segments[2].t_end = 16
       /\ selected_clips =
             <<[src |-> 1, t_start |-> best_segments[1].t_start,
                t_end |-> best_segments[1].t_end],
               [src |-> 2, t_start |-> 8, t_end |-> 12]>>
       /\ total = 12

\* C11 witness: the scenario has been exported, A's second window having been
\* the better one of A.
ScenarioWitness ==
    /\ caller = "build_travel_summary_smart"
    /\ segment_length = 8 /\ max_total_duration = 12
    /\ pc = "done" /\ exc = "none" /\ output_file
    /\ Len(selected_clips) = 2
    /\ selected_clips[1].t_start = 8
    /\ selected_clips[2].src = 2

(***************************************************************************)
(* Two runs of build_travel_summary_smart on the same directory: iterdir   *)
(* promises no order, so the second run may be given the files in another. *)
(***************************************************************************)
\* the scores printed so far, by file name and window
Scores ==
    UNION {{[name |-> names[norm_clips[c].file], t_start |-> score_log[c][w].t_start,
             t_end |-> score_log[c][w].t_end, score |-> score_log[c][w].score] :
               w \in 1..Len(score_log[c])} : c \in 1..Len(score_log)}

\* the windows the selector has kept, by file name
SelectedWindows ==
    [i \in 1..Len(best_segments) |->
        [name |-> names[norm_clips[best_segments[i].clip].file],
         t_start |-> best_segments[i].t_start,
         t_end |-> best_segments[i].t_end]]

\* the run got as far as the export
Complete == exc \notin {"ValueError: No videos found", "LoadFailure",
                        "ScoreFailure", "PackFailure"}

\* the scorer is a function of the file and the window: in the second run it
\* gives the scores it gave in the first
DeterministicScorer ==
    run = 2 =>
       \A e \in Scores : \A f \in first_run.scores :
          (e.name = f.name /\ e.t_start = f.t_start /\ e.t_end = f.t_end)
             => e.score = f.score

\* build_travel_summary_smart is called again on the same directory and the
\* same configuration; folder.iterdir() yields the files in some order
Rerun ==
    /\ pc = "done"
    /\ run = 1
    /\ run' = 2
    /\ first_run' = [complete |-> Complete, windows |-> SelectedWindows,
                     total |-> total, scores |-> Scores]
    /\ \E p \in Permutations(1..Len(video_dir)) :
          /\ video_dir' = [i \in 1..Len(video_dir) |-> video_dir[p[i]]]
          /\ names' = [i \in 1..Len(video_dir) |-> names[p[i]]]
    /\ pc' = "start"
    /\ exc' = "none"
    /\ norm_clips' = <<>> /\ reader' = <<>>
    /\ split_duration' = 0 /\ t' = 0 /\ split_segments' = <<>>
    /\ idx' = 0 /\ seg_times' = <<>> /\ wi' = 1
    /\ best_seg' = <<>> /\ best_score' = NegInf /\ best_segments' = <<>>
    /\ score_log' = <<>>
    /\ segments' = <<>> /\ si' = 1 /\ selected_clips' = <<>> /\ total' = 0
    /\ music_clip' = "none" /\ music_loop' = "none" /\ mixed_audio' = "none"
    /\ final_clip' = "none" /\ output_file' = FALSE /\ calls' = {}
    /\ UNCHANGED <<caller, segment_length, max_total_duration, min_segment_duration,
                   bg_music>>
    /\ UNCHANGED <<audioVars, durationVars, uploadVars>>

\* the directories of Init, without background music
InitRerun == Init /\ bg_music = "none"

NextRerun ==
    \/ BuildStart
    \/ LoadClip
    \/ LoadReturn
    \/ SelectNextClip
    \/ SplitStep
    \/ SplitReturn
    \/ (ScoreWindow /\ DeterministicScorer')
    \/ SelectEndClip
    \/ SelectReturn
    \/ PackSkipShort
    \/ PackOverflow
    \/ PackWhole
    \/ PackReturn
    \/ ExportCheck
    \/ Concatenate
    \/ WriteVideofile
    \/ Finally
    \/ Rerun

SpecRerun == InitRerun /\ [][NextRerun]_vars

\* C12: two runs on the same directory contents and configuration, with a
\* deterministic scorer, select the same windows (same clip, t_start, t_end, in
\* the same order) and pack the same total duration, whatever the order in which
\* the directory is enumerated.
RunsAgree ==
    (run = 2 /\ pc = "done" /\ Complete /\ first_run.complete) =>
       /\ SelectedWindows = first_run.windows
       /\ total = first_run.total

(***************************************************************************)
(* audio_energy_for_segment, alone and as segment_score calls it for each  *)
(* window of extract_best_segment_per_clip.                                *)
(***************************************************************************)
\* mutant of RaiseInTry: no handler, the exception leaves the function
RaiseUncaught == pc' = "done" /\ exc' = "AudioFailure"

\* a statement of the try block raises: `except Exception as e` takes over
RaiseInTry == pc' = "audio_except" /\ UNCHANGED exc

\* `return v`: to the caller of the function, or back in segment_score
AudioReturns(v) ==
    /\ energy' = <<v>>
    /\ pc' = IF caller = "audio_energy_for_segment" THEN "done" ELSE "score"

\* the energy of the window the inner loop is at has been returned
AudioScored ==
    /\ pc = "score"
    /\ wi <= Len(seg_times)
    /\ energy # <<>>
    /\ a_clip = idx + 1
    /\ <<a_start, a_end>> = seg_times[wi]

\* segment_score calls audio_energy_for_segment(clip, t_start, t_end)
AudioCall ==
    /\ pc = "score"
    /\ wi <= Len(seg_times)
    /\ ~AudioScored
    /\ a_clip' = idx + 1
    /\ a_start' = seg_times[wi][1]
    /\ a_end' = seg_times[wi][2]
    /\ audio_duration' = 0
    /\ num_samples' = 0
    /\ energy' = <<>>
    /\ pc' = "audio"
    /\ UNCHANGED <<exc, audio_tracks, warnings>>
    /\ UNCHANGED <<caller, video_dir, segment_length, max_total_duration,
                   min_segment_duration, bg_music, rerunVars, durationVars, uploadVars>>
    /\ UNCHANGED <<loadVars, splitVars, selectVars, packVars, exportVars>>

\* `if clip.audio is None: return 0.0`
AudioCheckTrack ==
    /\ pc = "audio"
    /\ IF ~audio_tracks[a_clip]
       THEN AudioReturns(0)
       ELSE pc' = "audio_subclip" /\ UNCHANGED energy
    /\ UNCHANGED <<exc, audio_tracks, a_clip, a_start, a_end, audio_duration,
                   num_samples, warnings>>
    /\ UNCHANGED <<caller, video_dir, segment_length, max_total_duration,
                   min_segment_duration, bg_music, rerunVars, durationVars, uploadVars>>
    /\ UNCHANGED <<loadVars, splitVars, selectVars, packVars, exportVars>>

\* `audio_subclip = clip.audio.subclip(t_start, t_end)` and
\* `duration = audio_subclip.duration or (t_end - t_start)`: the call may raise;
\* the duration it reports may be negative, None or 0 (0 here), tiny, or the
\* length of the window
AudioSubclip ==
    /\ pc = "audio_subclip"
    /\ \/ /\ RaiseInTry
          /\ UNCHANGED audio_duration
       \/ /\ \E reported \in {-1, 0, Eps, (a_end - a_start) * TickMs} :
                audio_duration' = IF reported # 0 THEN reported
                                  ELSE (a_end - a_start) * TickMs
          /\ pc' = "audio_guard"
          /\ UNCHANGED exc
    /\ UNCHANGED <<audio_tracks, a_clip, a_start, a_end, num_samples, energy, warnings>>
    /\ UNCHANGED <<caller, video_dir, segment_length, max_total_duration,
                   min_segment_duration, bg_music, rerunVars, durationVars, uploadVars>>
    /\ UNCHANGED <<loadVars, splitVars, selectVars, packVars, exportVars>>

\* the three guards that return 0.0: duration, effective_duration, num_samples
AudioGuards ==
    /\ pc = "audio_guard"
    /\ LET effective_duration == IF audio_duration - Eps > 0
                                 THEN audio_duration - Eps ELSE 0
           samples == Min(MaxSamples, audio_duration)
       IN  IF audio_duration <= 0 \/ effective_duration <= 0
           THEN AudioReturns(0) /\ UNCHANGED num_samples
           ELSE /\ num_samples' = samples
                /\ IF samples <= 0
                   THEN AudioReturns(0)
                   ELSE pc' = "audio_sample" /\ UNCHANGED energy
    /\ UNCHANGED <<exc, audio_tracks, a_clip, a_start, a_end, audio_duration, warnings>>
    /\ UNCHANGED <<caller, video_dir, segment_length, max_total_duration,
                   min_segment_duration, bg_music, rerunVars, durationVars, uploadVars>>
    /\ UNCHANGED <<loadVars, splitVars, selectVars, packVars, exportVars>>

\* np.linspace, to_soundarray, the mono mix and the RMS: any of them may raise,
\* else the RMS is returned
AudioSample ==
    /\ pc = "audio_sample"
    /\ \/ /\ RaiseInTry
          /\ UNCHANGED energy
       \/ /\ \E rms \in 0..MaxEnergy : AudioReturns(rms)
          /\ UNCHANGED exc
    /\ UNCHANGED <<audio_tracks, a_clip, a_start, a_end, audio_duration, num_samples,
                   warnings>>
    /\ UNCHANGED <<caller, video_dir, segment_length, max_total_duration,
                   min_segment_duration, bg_music, rerunVars, durationVars, uploadVars>>
    /\ UNCHANGED <<loadVars, splitVars, selectVars, packVars, exportVars>>

\* `except Exception as e`: the warning is printed, `return 0.0`
AudioExcept ==
    /\ pc = "audio_except"
    /\ warnings' = warnings \cup {<<a_clip, a_start, a_end>>}
    /\ AudioReturns(0)
    /\ UNCHANGED <<exc, audio_tracks, a_clip, a_start, a_end, audio_duration,
                   num_samples>>
    /\ UNCHANGED <<caller, video_dir, segment_length, max_total_duration,
                   min_segment_duration, bg_music, rerunVars, durationVars, uploadVars>>
    /\ UNCHANGED <<loadVars, splitVars, selectVars, packVars, exportVars>>

\* the clips the selector is given here: one or two windows each
AudioClipDurations == {MinWindow, 2 * MinWindow}

\* audio_energy_for_segment called on one clip with any t_start and t_end
InitAudioAlone ==
    /\ caller = "audio_energy_for_segment"
    /\ pc = "audio"
    /\ segment_length = 1
    /\ norm_clips = ClipsOf(<<MaxAudioEnd>>)
    /\ reader = <<"open">>
    /\ audio_tracks \in [1..1 -> BOOLEAN]
    /\ a_clip = 1
    /\ a_start \in 0..MaxAudioEnd
    /\ a_end \in 0..MaxAudioEnd

\* extract_best_segment_per_clip called on one or two clips
InitAudioSelect ==
    /\ caller = "extract_best_segment_per_clip"
    /\ pc = "select"
    /\ segment_length = MinWindow
    /\ \E ds \in SeqsUpTo(AudioClipDurations, 2) :
          /\ ds # <<>>
          /\ norm_clips = ClipsOf(ds)
          /\ reader = [i \in 1..Len(ds) |-> "open"]
          /\ audio_tracks \in [1..Len(ds) -> BOOLEAN]
    /\ a_clip = 0 /\ a_start = 0 /\ a_end = 0

InitAudio ==
    /\ exc = "none"
    /\ video_dir = <<>>
    /\ max_total_duration = 0
    /\ min_segment_duration = DefaultMinSegmentDuration
    /\ bg_music = "none"
    /\ InitAudioAlone \/ InitAudioSelect
    /\ audio_duration = 0 /\ num_samples = 0 /\ energy = <<>> /\ warnings = {}
    /\ SplitIdle /\ SelectIdle /\ segments = <<>> /\ PackIdle /\ ExportIdle
    /\ RerunIdle /\ DurationIdle /\ UploadIdle

\* the selector, every window's score being computed after the audio scorer
\* has returned
NextAudio ==
    \/ SelectNextClip
    \/ SplitStep
    \/ SplitReturn
    \/ AudioCall
    \/ AudioCheckTrack
    \/ AudioSubclip
    \/ AudioGuards
    \/ AudioSample
    \/ AudioExcept
    \/ (AudioScored /\ ScoreWindow)
    \/ SelectEndClip
    \/ SelectReturn

SpecAudio == InitAudio /\ [][NextAudio]_vars

\* C13: audio_energy_for_segment never propagates a failure: nothing is raised,
\* and it returns 0.0 when the clip has no audio track, when the duration, the
\* effective duration or the sample count is <= 0, and when a step of the try
\* block failed (the warning was printed); the selector therefore scores every
\* window of every clip and ends having visited all clips.
AudioNeverPropagates ==
    /\ exc = "none"
    /\ (energy # <<>> /\ energy # <<0>>) =>
          /\ audio_tracks[a_clip]
          /\ <<a_clip, a_start, a_end>> \notin warnings
          /\ audio_duration > Eps
          /\ num_samples > 0
    /\ (caller = "extract_best_segment_per_clip" /\ pc = "select" /\ idx >= 1) =>
          Len(score_log[idx]) = Len(seg_times)
    /\ (caller = "extract_best_segment_per_clip" /\ pc = "done") =>
          /\ idx = Len(norm_clips)
          /\ Len(score_log) = Len(norm_clips)

\* C13 witness: the selector has returned after the audio scoring of the first
\* window of the first clip failed; the second window and the second clip were
\* scored all the same.
AudioFailureWitness ==
    /\ caller = "extract_best_segment_per_clip"
    /\ pc = "done" /\ exc = "none"
    /\ <<1, 0, MinWindow>> \in warnings
    /\ Len(score_log) = 2
    /\ Len(score_log[1]) = 2
    /\ Len(score_log[2]) >= 1

(***************************************************************************)
(* selected_by_duration (app/video_processor.py; scripts/concat_videos.py  *)
(* holds the same text).                                                   *)
(***************************************************************************)
\* `duration` after `if duration > max_clip_length: ... duration = max_clip_length`
CutDuration(d) == IF d > max_clip_length THEN max_clip_length ELSE d

\* `if duration < min_clip_length: continue`
DurationSkipShort ==
    /\ pc = "duration"
    /\ ci <= Len(clips_in)
    /\ clips_in[ci].duration < min_clip_length
    /\ ci' = ci + 1
    /\ UNCHANGED <<pc, exc, clips_in, max_total_length, min_clip_length, max_clip_length,
                   selected, total_length>>
    /\ UNCHANGED <<caller, video_dir, segment_length, max_total_duration,
                   min_segment_duration, bg_music, rerunVars, audioVars, uploadVars>>
    /\ UNCHANGED <<loadVars, splitVars, selectVars, packVars, exportVars>>

\* `if total + duration > max_total_length`: the clip is cut to what remains if
\* that is not too short, `total += duration`, and the loop is left
DurationOverflow ==
    /\ pc = "duration"
    /\ ci <= Len(clips_in)
    /\ ~(clips_in[ci].duration < min_clip_length)
    /\ LET duration == CutDuration(clips_in[ci].duration)
           remaining == max_total_length - total_length
       IN  /\ total_length + duration > max_total_length
           /\ IF remaining >= min_clip_length
              THEN /\ selected' = Append(selected,
                                    [src |-> ci, t_start |-> 0, t_end |-> remaining])
                   /\ total_length' = total_length + duration
              ELSE UNCHANGED <<selected, total_length>>
    /\ pc' = "duration_break"
    /\ UNCHANGED <<exc, clips_in, max_total_length, min_clip_length, max_clip_length, ci>>
    /\ UNCHANGED <<caller, video_dir, segment_length, max_total_duration,
                   min_segment_duration, bg_music, rerunVars, audioVars, uploadVars>>
    /\ UNCHANGED <<loadVars, splitVars, selectVars, packVars, exportVars>>

\* `else: selected.append(cutted); total += duration`
DurationWhole ==
    /\ pc = "duration"
    /\ ci <= Len(clips_in)
    /\ ~(clips_in[ci].duration < min_clip_length)
    /\ LET duration == CutDuration(clips_in[ci].duration)
       IN  /\ ~(total_length + duration > max_total_length)
           /\ selected' = Append(selected,
                                 [src |-> ci, t_start |-> 0, t_end |-> duration])
           /\ total_length' = total_length + duration
    /\ ci' = ci + 1
    /\ UNCHANGED <<pc, exc, clips_in, max_total_length, min_clip_length, max_clip_length>>
    /\ UNCHANGED <<caller, video_dir, segment_length, max_total_duration,
                   min_segment_duration, bg_music, rerunVars, audioVars, uploadVars>>
    /\ UNCHANGED <<loadVars, splitVars, selectVars, packVars, exportVars>>

\* the loop is over or was left: the two prints and `return selected`
DurationReturn ==
    /\ \/ pc = "duration" /\ ci > Len(clips_in)
       \/ pc = "duration_break"
    /\ pc' = "done"
    /\ UNCHANGED <<exc, durationVars>>
    /\ UNCHANGED <<caller, video_dir, segment_length, max_total_duration,
                   min_segment_duration, bg_music, rerunVars, audioVars, uploadVars>>
    /\ UNCHANGED <<loadVars, splitVars, selectVars, packVars, exportVars>>

InitDuration ==
    /\ caller = "selected_by_duration"
    /\ pc = "duration"
    /\ exc = "none"
    /\ video_dir = <<>>
    /\ segment_length = 1
    /\ max_total_duration = 0
    /\ min_segment_duration = DefaultMinSegmentDuration
    /\ bg_music = "none"
    /\ \E ds \in SeqsUpTo(0..MaxListedDuration, MaxListed) :
          clips_in = [i \in 1..Len(ds) |-> [duration |-> ds[i]]]
    /\ max_total_length \in 0..MaxLengthBudget
    /\ min_clip_length \in 0..MaxMinClip
    /\ max_clip_length \in 1..MaxCut
    /\ ci = 1 /\ selected = <<>> /\ total_length = 0
    /\ LoadIdle /\ SplitIdle /\ SelectIdle /\ segments = <<>> /\ PackIdle /\ ExportIdle
    /\ RerunIdle /\ AudioIdle /\ UploadIdle

NextDuration ==
    \/ DurationSkipShort
    \/ DurationOverflow
    \/ DurationWhole
    \/ DurationReturn

SpecDuration == InitDuration /\ [][NextDuration]_vars

\* the sum of the durations of the clips selected_by_duration has selected is
\* at most max_total_length
SelectedWithinBudget == SumDurations(selected) <= max_total_length

\* C14: the running total of selected_by_duration equals the sum of the
\* durations of the clips selected so far and is at most max_total_length when
\* the function returns; no clip shorter than min_clip_length is selected, and
\* no clip after the first that overflows the budget.
DurationTotal ==
    /\ total_length = SumDurations(selected)
    /\ pc = "done" => total_length <= max_total_length
    /\ \A k \in 1..Len(selected) :
          ~(clips_in[selected[k].src].duration < min_clip_length)
    /\ pc \in {"duration_break", "done"} =>
          \A k \in 1..Len(selected) : selected[k].src <= ci

(***************************************************************************)
(* Termination.  The program is one thread that runs without waiting:      *)
(* whenever a step can be taken, one is taken.                             *)
(***************************************************************************)
\* the directories here: a file that is no video, a short video, and a video
\* whose last window is too short to be kept
LiveEntries ==
    {[suffix |-> ".mp4", is_file |-> TRUE, duration |-> d] :
        d \in {MinWindow, MaxFileDuration + 1}}
    \cup {[suffix |-> ".mp3", is_file |-> TRUE, duration |-> 0]}

\* the empty directory and the directories of one and of two of these entries
LiveDirs ==
    {<<>>} \cup {<<e>> : e \in LiveEntries}
           \cup {<<e, f>> : e \in LiveEntries, f \in LiveEntries}

InitLive ==
    /\ caller = "build_travel_summary_smart"
    /\ pc = "start"
    /\ exc = "none"
    /\ video_dir \in LiveDirs
    /\ segment_length \in PipelineLengths
    /\ max_total_duration \in PipelineBudgets
    /\ min_segment_duration = DefaultMinSegmentDuration
    /\ bg_music \in {"none", "missing", "exists"}
    /\ LoadIdle /\ SplitIdle /\ SelectIdle /\ segments = <<>> /\ PackIdle /\ ExportIdle
    /\ OtherIdle

SpecLive == InitLive /\ [][Next]_vars /\ WF_vars(Next)

\* the least k with k * b >= a, for a >= 0 and b > 0
CeilDiv(a, b) == (a + b - 1) \div b

\* an iteration of the while loop of split_in_segments advances t by
\* min(segment_length, D - t) > 0
SplitProgress ==
    (pc = "split" /\ pc' = "split") =>
       /\ t' - t = Min(segment_length, split_duration - t)
       /\ t' > t

\* the selector passes from one clip to the next, the packer from one segment
\* to the next
VisitOnce ==
    /\ (pc = "score" /\ pc' = "select") => idx' = idx + 1
    /\ (pc = "select" /\ pc' = "split") => idx' = idx
    /\ (pc = "pack" /\ pc' = "pack") => si' = si + 1
    /\ idx' \in {idx, idx + 1}

\* after k iterations t is min(k * segment_length, D), with k <= ceil(D / L);
\* the selector and the packer stay within their lists
LoopBounds ==
    /\ pc = "split" =>
          \E k \in 0..CeilDiv(split_duration, segment_length) :
             t = Min(k * segment_length, split_duration)
    /\ idx <= Len(norm_clips)
    /\ si <= Len(segments) + 1

\* C15: started on a finite set of clips with segment_length > 0 the pipeline
\* terminates: every iteration of split_in_segments advances t by
\* min(segment_length, D - t) > 0 and there are at most ceil(D / segment_length)
\* of them, the selector and the packer visit every clip and segment at most
\* once, and build_travel_summary_smart eventually returns or raises.
PipelineTerminates ==
    /\ [][SplitProgress /\ VisitOnce]_vars
    /\ []LoopBounds
    /\ <>(pc = "done")

\* C15 witness: the pipeline has returned after the export, having split a
\* clip whose last window was too short to keep and visited two clips and two
\* segments.
TerminationWitness ==
    /\ caller = "build_travel_summary_smart"
    /\ pc = "done" /\ exc = "none" /\ output_file
    /\ Len(norm_clips) = 2
    /\ norm_clips[1].duration = MaxFileDuration + 1
    /\ Len(score_log) = 2 /\ Len(score_log[1]) = 2
    /\ Len(segments) = 2 /\ si > 1

(***************************************************************************)
(* process_videos (app/main.py): the uploads are written to a new session  *)
(* directory, which is then given to build_travel_summary_smart.           *)
(***************************************************************************)
\* Path.suffix
Suffix(name) == name[Len(name)]

\* `f"{idx:03d}"`
Prefijo(i) == <<"000", "001", "002">>[i + 1]

\* `f"{prefijo}_{vid.filename}"`
SafeName(i, filename) == <<Prefijo(i)>> \o filename

\* `open(path, "wb")` and copyfileobj: the file is created, or replaced
WriteFile(dir, file) == {f \in dir : f.name # file.name} \cup {file}

\* the orders in which iterdir may yield the files of a directory
Enumerations(dir) ==
    {q \in [1..Cardinality(dir) -> dir] :
        \A i, j \in 1..Cardinality(dir) : i # j => q[i] # q[j]}

\* one iteration of `for idx, vid in enumerate(videos)`
SaveVideo ==
    /\ pc = "save_videos"
    /\ vi < Len(videos)
    /\ session_dir' = WriteFile(session_dir,
                         [name |-> SafeName(vi, videos[vi + 1].filename),
                          kind |-> "video", upload |-> vi + 1,
                          duration |-> videos[vi + 1].duration])
    /\ vi' = vi + 1
    /\ UNCHANGED <<pc, exc, videos, music>>
    /\ UNCHANGED <<caller, video_dir, segment_length, max_total_duration,
                   min_segment_duration, bg_music, rerunVars, audioVars, durationVars>>
    /\ UNCHANGED <<loadVars, splitVars, selectVars, packVars, exportVars>>

\* `if music is not None`: the music is written to session_dir / music.filename
SaveMusic ==
    /\ pc = "save_videos"
    /\ ~(vi < Len(videos))
    /\ session_dir' = IF music # <<>>
                      THEN WriteFile(session_dir,
                              [name |-> music[1], kind |-> "music", upload |-> 0,
                               duration |-> MaxFileDuration])
                      ELSE session_dir
    /\ pc' = "call"
    /\ UNCHANGED <<exc, videos, music, vi>>
    /\ UNCHANGED <<caller, video_dir, segment_length, max_total_duration,
                   min_segment_duration, bg_music, rerunVars, audioVars, durationVars>>
    /\ UNCHANGED <<loadVars, splitVars, selectVars, packVars, exportVars>>

\* build_travel_summary_smart(video_dir=session_dir, output_path=...,
\* bg_music_path=music_path) is entered; iterdir will yield the files of the
\* session directory in some order
CallPipeline ==
    /\ pc = "call"
    /\ \E q \in Enumerations(session_dir) :
          /\ video_dir' = [i \in 1..Len(q) |->
                             [suffix |-> Suffix(q[i].name), is_file |-> TRUE,
                              duration |-> q[i].duration]]
          /\ names' = [i \in 1..Len(q) |-> q[i].name]
    /\ bg_music' = IF music # <<>> THEN "exists" ELSE "none"
    /\ pc' = "start"
    /\ UNCHANGED <<caller, exc, segment_length, max_total_duration,
                   min_segment_duration, run, first_run>>
    /\ UNCHANGED <<audioVars, durationVars, uploadVars>>
    /\ UNCHANGED <<loadVars, splitVars, selectVars, packVars, exportVars>>

\* what the browser may send as videos: names of the allow-list
VideoUploads ==
    {[filename |-> <<"a", ".mp4">>, duration |-> MaxFileDuration],
     [filename |-> <<"b", ".mov">>, duration |-> MinWindow]}

\* what the browser may send as music: song.mp3, song.mp4, 000_a.mp4
MusicUploads == {<<"song", ".mp3">>, <<"song", ".mp4">>, <<"000", "a", ".mp4">>}

InitUpload ==
    /\ caller = "process_videos"
    /\ pc = "save_videos"
    /\ exc = "none"
    /\ video_dir = <<>>
    /\ segment_length = DefaultSegmentLength
    /\ max_total_duration = DefaultMaxTotalDuration
    /\ min_segment_duration = DefaultMinSegmentDuration
    /\ bg_music = "none"
    /\ videos \in SeqsUpTo(VideoUploads, MaxUploads) \ {<<>>}
    /\ music \in {<<>>} \cup {<<m>> : m \in MusicUploads}
    /\ session_dir = {}
    /\ vi = 0
    /\ LoadIdle /\ SplitIdle /\ SelectIdle /\ segments = <<>> /\ PackIdle /\ ExportIdle
    /\ RerunIdle /\ AudioIdle /\ DurationIdle

\* the steps of process_videos; with the default budget of 85 s no clip of
\* these uploads overflows
NextUpload ==
    \/ SaveVideo
    \/ SaveMusic
    \/ CallPipeline
    \/ BuildStart
    \/ LoadClip
    \/ LoadReturn
    \/ SelectNextClip
    \/ SplitStep
    \/ SplitReturn
    \/ ScoreWindow
    \/ ScoreRaise
    \/ SelectEndClip
    \/ SelectReturn
    \/ PackSkipShort
    \/ PackWhole
    \/ PackRaise
    \/ PackReturn
    \/ ExportCheck
    \/ Concatenate
    \/ LoadMusic
    \/ LoopMusic
    \/ MixAudio
    \/ WriteVideofile
    \/ Finally

SpecUpload == InitUpload /\ [][NextUpload]_vars

\* the file of the session directory that holds the i-th uploaded video
SavedVideo(i) ==
    [name |-> SafeName(i - 1, videos[i].filename), kind |-> "video", upload |-> i,
     duration |-> videos[i].duration]

\* C16: in process_videos the source clips the pipeline loads from the session
\* directory are exactly the N uploaded videos: once saved, an uploaded video is
\* never overwritten by the music file, and the music file is never enumerated
\* as an input video.
OnlyUploadedVideosLoaded ==
    /\ \A i \in 1..vi : SavedVideo(i) \in session_dir
    /\ (pc \in {"select", "split", "score", "pack", "pack_break", "export"}) =>
          /\ Len(norm_clips) = Len(videos)
          /\ {names[norm_clips[k].file] : k \in 1..Len(norm_clips)} =
                {SavedVideo(i).name : i \in 1..Len(videos)}

====
